---------------------------- MODULE Spec2Model ----------------------------
(***************************************************************************)
(* A model of the YouTube-to-Drive Telegram bot (src/main.py and           *)
(* src/drive_utils.py).                                                    *)
(*                                                                         *)
(* Strings the code inspects character by character (message texts,        *)
(* titles, download diagnostics) are sequences of one-character strings,   *)
(* so that the regular expressions, str.lower() and the `in' substring     *)
(* tests are computed and not assumed.                                     *)
(***************************************************************************)
EXTENDS Integers, Sequences, FiniteSets, TLC

(***************************************************************************)
(* Bounds of the model.                                                    *)
(***************************************************************************)
MaxCalls == 3
MaxObjects == 1

(***************************************************************************)
(* Characters.                                                             *)
(***************************************************************************)
LowerLetters ==
    {"a","b","c","d","e","f","g","h","i","j","k","l","m",
     "n","o","p","q","r","s","t","u","v","w","x","y","z"}

UpperLetters ==
    {"A","B","C","D","E","F","G","H","I","J","K","L","M",
     "N","O","P","Q","R","S","T","U","V","W","X","Y","Z"}

Digits == {"0","1","2","3","4","5","6","7","8","9"}

\* The class [\w\-] of both URL patterns.
WordChars == LowerLetters \cup UpperLetters \cup Digits \cup {"_", "-"}

\* \s, as far as the model's strings hold whitespace.
Whitespace == {" ", "\t", "\n"}

\* str.lower() on one character.
LowerChar(c) ==
    CASE c = "A" -> "a" [] c = "B" -> "b" [] c = "C" -> "c" [] c = "D" -> "d"
      [] c = "E" -> "e" [] c = "F" -> "f" [] c = "G" -> "g" [] c = "H" -> "h"
      [] c = "I" -> "i" [] c = "J" -> "j" [] c = "K" -> "k" [] c = "L" -> "l"
      [] c = "M" -> "m" [] c = "N" -> "n" [] c = "O" -> "o" [] c = "P" -> "p"
      [] c = "Q" -> "q" [] c = "R" -> "r" [] c = "S" -> "s" [] c = "T" -> "t"
      [] c = "U" -> "u" [] c = "V" -> "v" [] c = "W" -> "w" [] c = "X" -> "x"
      [] c = "Y" -> "y" [] c = "Z" -> "z" [] OTHER -> c

\* str.lower()
Lower(s) == [k \in 1..Len(s) |-> LowerChar(s[k])]

\* s[p:].startswith(lit), positions counted from 1.
StartsAt(s, p, lit) ==
    /\ p >= 1
    /\ p + Len(lit) - 1 <= Len(s)
    /\ \A k \in 1..Len(lit) : s[p + k - 1] = lit[k]

\* needle in s
Contains(s, needle) == \E p \in 1..(Len(s) + 1) : StartsAt(s, p, needle)

\* The first position at or after p that holds no whitespace (Len(s)+1 if none).
RECURSIVE SkipWs(_, _)
SkipWs(s, p) ==
    IF p <= Len(s) /\ s[p] \in Whitespace THEN SkipWs(s, p + 1) ELSE p

\* str.strip(chars)
RECURSIVE StripChars(_, _)
StripChars(s, chars) ==
    IF s = <<>> THEN s
    ELSE IF Head(s) \in chars THEN StripChars(Tail(s), chars)
    ELSE IF s[Len(s)] \in chars THEN StripChars(SubSeq(s, 1, Len(s) - 1), chars)
    ELSE s

(***************************************************************************)
(* URL helpers: YOUTUBE_VIDEO_RE, YOUTUBE_PLAYLIST_RE and the two          *)
(* predicates built on re.search.                                          *)
(***************************************************************************)
LitWatch == <<"y","o","u","t","u","b","e",".","c","o","m","/","w","a","t","c","h","?">>
LitPlaylist == <<"y","o","u","t","u","b","e",".","c","o","m","/","p","l","a","y","l","i","s",
    "t","?">>
LitShorts == <<"y","o","u","t","u","b","e",".","c","o","m","/","s","h","o","r","t","s","/">>
LitShortHost == <<"y","o","u","t","u",".","b","e","/">>
LitV == <<"v","=">>
LitList == <<"l","i","s","t","=">>

\* [\w\-]+ matches at p: one character of the class is enough.
WordAt(s, p) == p <= Len(s) /\ s[p] \in WordChars

\* `.*' then lit then [\w\-]+, from position p: `.' matches anything but a newline.
DotStarThen(s, p, lit) ==
    \E q \in p..Len(s) :
        /\ \A k \in p..(q - 1) : s[k] # "\n"
        /\ StartsAt(s, q, lit)
        /\ WordAt(s, q + Len(lit))

\* YOUTUBE_VIDEO_RE.search(text). The scheme and the www./m. prefix are optional
\* groups in front of an unanchored search, so a match exists exactly when the
\* host part matches somewhere. The pattern is compiled without re.IGNORECASE.
YOUTUBE_VIDEO_RE(s) ==
    \E p \in 1..Len(s) :
        \/ StartsAt(s, p, LitWatch) /\ DotStarThen(s, p + Len(LitWatch), LitV)
        \/ StartsAt(s, p, LitShorts) /\ WordAt(s, p + Len(LitShorts))
        \/ StartsAt(s, p, LitShortHost) /\ WordAt(s, p + Len(LitShortHost))

\* YOUTUBE_PLAYLIST_RE.search(text)
YOUTUBE_PLAYLIST_RE(s) ==
    \E p \in 1..Len(s) :
        \/ StartsAt(s, p, LitPlaylist) /\ DotStarThen(s, p + Len(LitPlaylist), LitList)
        \/ StartsAt(s, p, LitWatch) /\ DotStarThen(s, p + Len(LitWatch), LitList)

is_youtube_url(text) == YOUTUBE_VIDEO_RE(text) \/ YOUTUBE_PLAYLIST_RE(text)

is_playlist_url(text) == YOUTUBE_PLAYLIST_RE(text)

\* The message texts the model receives.
TextWatch == <<"h","t","t","p","s",":","/","/","w","w","w",".","y","o","u","t","u","b","e",
    ".","c","o","m","/","w","a","t","c","h","?","v","=","a","b","1">>
TextPlaylist == <<"h","t","t","p","s",":","/","/","y","o","u","t","u","b","e",".","c","o",
    "m","/","p","l","a","y","l","i","s","t","?","l","i","s","t","=","P","L","1">>
TextShortLinkList == <<"y","o","u","t","u",".","b","e","/","a","b","1","?","l","i","s","t",
    "=","P","L","1">>
TextOtherHost == <<"h","t","t","p","s",":","/","/","e","x","a","m","p","l","e",".","c","o",
    "m","/","w","a","t","c","h","?","v","=","a","b","1">>
TextPadded == <<" ","y","o","u","t","u",".","b","e","/","a","b","1"," ">>

Texts == {TextWatch, TextPlaylist, TextShortLinkList, TextOtherHost, TextPadded, <<>>}

(***************************************************************************)
(* Filename sanitization.                                                  *)
(***************************************************************************)
\* Characters of the model whose Unicode category starts with S or C.
SymbolOrControl == {"|", "<", ">", "+", "=", "~", "^", "$", "\t", "\n"}

\* The allow-list of the first step.
AllowedPunct == {"-", "'", "&", ",", ".", "!", "?"}

\* The literal alternatives of _GARBAGE_RE, in the pattern's order, lower-cased
\* (the pattern is compiled with re.IGNORECASE). The alternatives built around
\* Official, Lyric, Music and Remastered need those words, which no title of
\* the model holds.
GarbageWords ==
    << <<"h","d">>, <<"h","q">>, <<"4","k">>, <<"m","v">>,
       <<"a","u","d","i","o">>,
       <<"v","i","s","u","a","l","i","z","e","r">>,
       <<"v","i","s","u","a","l","i","s","e","r">>,
       <<"l","i","v","e">>,
       <<"a","c","o","u","s","t","i","c">>,
       <<"r","e","m","i","x">>,
       <<"k","a","r","a","o","k","e">> >>

\* The length of the first alternative that matches at p, 0 if none does; low is
\* the lower-cased subject.
KeywordLenAt(low, p) ==
    LET hits == {i \in 1..Len(GarbageWords) : StartsAt(low, p, GarbageWords[i])}
    IN  IF hits = {} THEN 0
        ELSE Len(GarbageWords[CHOOSE i \in hits : \A j \in hits : i <= j])

\* One past the end of the _GARBAGE_RE match that starts at i, 0 if none starts
\* there:  \s* [\[\(]? \s* (keyword) \s* [\]\)]?
GarbageEnd(s, low, i) ==
    LET j  == SkipWs(s, i)
        b  == IF j <= Len(s) /\ s[j] \in {"[", "("} THEN SkipWs(s, j + 1) ELSE 0
        k  == IF b # 0 /\ KeywordLenAt(low, b) > 0 THEN b
              ELSE IF KeywordLenAt(low, j) > 0 THEN j
              ELSE 0
        e  == SkipWs(s, k + KeywordLenAt(low, k))
    IN  IF k = 0 THEN 0
        ELSE IF e <= Len(s) /\ s[e] \in {"]", ")"} THEN e + 1
        ELSE e

\* _GARBAGE_RE.sub("", s), scanning from position i.
RECURSIVE GarbageSub(_, _, _)
GarbageSub(s, low, i) ==
    IF i > Len(s) THEN <<>>
    ELSE LET e == GarbageEnd(s, low, i)
         IN  IF e # 0 THEN GarbageSub(s, low, e)
             ELSE <<s[i]>> \o GarbageSub(s, low, i + 1)

\* The class of _SPECIAL_CHARS_RE.
SpecialChars == {"|", "/", "\\", ":", "*", "?", "\"", "<", ">"}

\* re.sub(r"\s{2,}", " ", s)
RECURSIVE CollapseWs(_)
CollapseWs(s) ==
    IF s = <<>> THEN s
    ELSE IF Head(s) \in Whitespace /\ Len(s) >= 2 /\ s[2] \in Whitespace
         THEN <<" ">> \o CollapseWs(SubSeq(s, SkipWs(s, 1), Len(s)))
    ELSE <<Head(s)>> \o CollapseWs(Tail(s))

sanitize_filename(name) ==
    LET kept     == SelectSeq(name, LAMBDA ch : ch \notin SymbolOrControl \/ ch \in AllowedPunct)
        untagged == GarbageSub(kept, Lower(kept), 1)
        safe     == SelectSeq(untagged, LAMBDA ch : ch \notin SpecialChars)
    IN  StripChars(CollapseWs(safe), {" ", "-", "_", "(", ")"})

(***************************************************************************)
(* The remote store and src/drive_utils.py.                                *)
(*                                                                         *)
(* The store is the set of objects the Drive API holds: each has an id, a  *)
(* name, a parent and is a folder or a file. A created object is visible   *)
(* to every later lookup. Any request may fail (HttpError, a network       *)
(* error); a failed create may or may not have been carried out by the     *)
(* server.                                                                 *)
(***************************************************************************)
\* GOOGLE_DRIVE_FOLDER_ID when it is set.
RootId == "root"

\* The ids the store hands out, in order.
IdPool == <<"id1", "id2", "id3", "id4", "id5", "id6", "id7", "id8", "id9", "id10",
            "id11", "id12">>

DriveObject(id, name, parent, folder) ==
    [id |-> id, name |-> name, parent |-> parent, folder |-> folder]

\* The files the query of find_file_in_folder selects: name and parent, and no
\* condition on the mimeType.
Matches(st, folder_id, filename) ==
    {f \in st : f.name = filename /\ f.parent = folder_id}

\* What find_file_in_folder can return on a request that succeeds: files[0]["id"]
\* of a list in the store's order (pageSize = 1), or None.
find_file_in_folder(st, folder_id, filename) ==
    IF Matches(st, folder_id, filename) = {} THEN {"None"}
    ELSE {f.id : f \in Matches(st, folder_id, filename)}

ListOp(name, parent) == [op |-> "list", name |-> name, parent |-> parent]
CreateOp(name, parent, folder) ==
    [op |-> "create", name |-> name, parent |-> parent, folder |-> folder]
ChunkOp(name, parent) == [op |-> "next_chunk", name |-> name, parent |-> parent]

\* The result of one call of a drive_utils function: what it returned (or that it
\* raised), the store and the id counter it leaves, and the requests it issued.
Outcome(raised, ret, st, nid, ops) ==
    [raised |-> raised, ret |-> ret, store |-> st, nextId |-> nid, ops |-> ops]

\* The outcomes of the files().create(...) request for a new object: carried out
\* and answered, refused, or carried out with the answer lost.
CreateRequest(st, nid, name, parent, folder, ops) ==
    LET made == st \cup {DriveObject(IdPool[nid], name, parent, folder)}
    IN  { Outcome(FALSE, IdPool[nid], made, nid + 1, ops),
          Outcome(TRUE, "None", st, nid, ops),
          Outcome(TRUE, "None", made, nid + 1, ops) }

\* create_folder without its lookup: it always issues the create request.
create_folder_no_lookup(st, nid, folder_name, parent_folder_id) ==
    CreateRequest(st, nid, folder_name, parent_folder_id, TRUE,
                  <<CreateOp(folder_name, parent_folder_id, TRUE)>>)

\* create_folder(service, folder_name, parent_folder_id)
create_folder(st, nid, folder_name, parent_folder_id) ==
    LET lookup == <<ListOp(folder_name, parent_folder_id)>>
    IN  { Outcome(TRUE, "None", st, nid, lookup) }
        \cup
        UNION { IF existing # "None"
                THEN { Outcome(FALSE, existing, st, nid, lookup) }
                ELSE CreateRequest(st, nid, folder_name, parent_folder_id, TRUE,
                                   lookup \o <<CreateOp(folder_name, parent_folder_id, TRUE)>>)
              : existing \in find_file_in_folder(st, parent_folder_id, folder_name) }

\* The resumable upload of upload_file: the create request, then next_chunk()
\* until it answers; a chunk request may raise before the object exists.
MediaUpload(st, nid, filename, folder_id, ops) ==
    LET req == ops \o <<CreateOp(filename, folder_id, FALSE)>>
        one == req \o <<ChunkOp(filename, folder_id)>>
        two == one \o <<ChunkOp(filename, folder_id)>>
    IN  { Outcome(TRUE, "None", st, nid, one) }
        \cup CreateRequest(st, nid, filename, folder_id, FALSE, one)
        \cup CreateRequest(st, nid, filename, folder_id, FALSE, two)

\* upload_file without its duplicate check: the lookup is made and not used.
upload_file_no_check(st, nid, filename, folder_id) ==
    MediaUpload(st, nid, filename, folder_id, <<ListOp(filename, folder_id)>>)

\* upload_file(service, filepath, folder_id), given os.path.basename(filepath)
upload_file(st, nid, filename, folder_id) ==
    LET lookup == <<ListOp(filename, folder_id)>>
    IN  { Outcome(TRUE, "None", st, nid, lookup) }
        \cup
        UNION { IF existing # "None"
                THEN { Outcome(FALSE, existing, st, nid, lookup) }
                ELSE MediaUpload(st, nid, filename, folder_id, lookup)
              : existing \in find_file_in_folder(st, folder_id, filename) }

(***************************************************************************)
(* The workspace and the extraction collaborator.                          *)
(***************************************************************************)
\* Optional values: None, or a value.
None == [some |-> FALSE, val |-> <<>>]
Some(v) == [some |-> TRUE, val |-> v]

Mp3Ext == <<".","m","p","3">>
Mp3(stem) == stem \o Mp3Ext

\* tempfile.mkdtemp(prefix="ytdl_"): the job's directory.
TmpDir == <<"/","t","m","p","/","y","t","d","l","_","1">>

\* os.path.join(output_dir, name)
Join(dir, name) == dir \o <<"/">> \o name

\* os.path.basename(path)
RECURSIVE Basename(_)
Basename(path) ==
    IF \E k \in 1..Len(path) : path[k] = "/" THEN Basename(Tail(path)) ELSE path

\* f.endswith(".mp3")
EndsWithMp3(f) == Len(f) >= Len(Mp3Ext) /\ StartsAt(f, Len(f) - Len(Mp3Ext) + 1, Mp3Ext)

\* The workspace is a set of files, each a name and the entry whose audio it holds.
File(name, src) == [name |-> name, src |-> src]
Names(files) == {f.name : f \in files}

\* os.path.isfile of a path in the workspace
isfile(files, path) == \E f \in files : Join(TmpDir, f.name) = path

\* The titles the collaborator reports.
TitleSong == <<"S","o","n","g">>
TitleSongHD == <<"S","o","n","g"," ","(","H","D",")">>
TitleHD == <<"[","H","D","]">>
TitleMix == <<"M","y"," ","M","i","x">>

RawTitles == {TitleSong, TitleSongHD, TitleHD}
PlaylistTitles == {TitleMix, TitleHD}

\* The longest list of entries a playlist of the model has.
MaxEntries == 2

\* The diagnostics a DownloadError carries.
DiagPrivate == <<"E","R","R","O","R",":"," ","P","r","i","v","a","t","e"," ","v","i","d","e",
    "o">>
DiagPrivateUnavailable == <<"V","i","d","e","o"," ","u","n","a","v","a","i","l","a","b","l",
    "e","."," ","T","h","i","s"," ","v","i","d","e","o"," ","i","s"," ","p","r","i","v","a",
    "t","e">>
DiagRemoved == <<"T","h","i","s"," ","v","i","d","e","o"," ","h","a","s"," ","b","e","e","n",
    " ","R","E","M","O","V","E","D">>
DiagCountry == <<"V","i","d","e","o"," ","u","n","a","v","a","i","l","a","b","l","e"," ","i",
    "n"," ","y","o","u","r"," ","c","o","u","n","t","r","y">>
DiagGeo == <<"G","e","o","-","r","e","s","t","r","i","c","t","e","d">>
DiagSignIn == <<"S","i","g","n"," ","i","n"," ","t","o"," ","c","o","n","f","i","r","m"," ",
    "y","o","u"," ","a","r","e"," ","n","o","t"," ","a"," ","b","o","t">>
DiagFormat == <<"R","e","q","u","e","s","t","e","d"," ","f","o","r","m","a","t"," ","i","s",
    " ","n","o","t"," ","a","v","a","i","l","a","b","l","e">>
DiagOther == <<"H","T","T","P"," ","E","r","r","o","r"," ","4","0","3">>

Diags ==
    {DiagPrivate, DiagPrivateUnavailable, DiagRemoved, DiagCountry, DiagGeo,
     DiagSignIn, DiagFormat, DiagOther}

\* An entry of info["entries"]: a dict with a title, or None (an item the
\* collaborator skipped under ignoreerrors).
Entry(title) == Some(title)

EntryLists ==
    UNION { [1..n -> {Entry(x) : x \in RawTitles} \cup {None}] : n \in 0..MaxEntries }

\* What ydl.extract_info(url, download=True) can do: raise DownloadError, return
\* None (ignoreerrors is set), or return an info dict, of a single video (no
\* "entries") or of a collection (its "entries", which may be empty). For each
\* item it fetched it leaves the audio under the raw title ("raw"), under a name
\* of its own ("other"), or leaves none ("missing").
Extractions ==
    { [kind |-> "DownloadError", diag |-> d, collection |-> FALSE, title |-> <<>>,
       entries |-> <<>>, written |-> <<>>] : d \in Diags }
    \cup
    { [kind |-> "None", diag |-> <<>>, collection |-> FALSE, title |-> <<>>,
       entries |-> <<>>, written |-> <<>>] }
    \cup
    { [kind |-> "info", diag |-> <<>>, collection |-> FALSE, title |-> x,
       entries |-> <<>>, written |-> <<w>>]
        : x \in RawTitles, w \in {"raw", "other", "missing"} }
    \cup
    UNION { { [kind |-> "info", diag |-> <<>>, collection |-> TRUE, title |-> x,
               entries |-> es, written |-> ws]
                : ws \in { w \in [1..Len(es) -> {"raw", "other", "missing"}] :
                            \A k \in 1..Len(es) : ~es[k].some => w[k] = "missing" } }
            : x \in PlaylistTitles, es \in EntryLists }

\* A name of the collaborator's own for a title.
OtherName(title) == <<"N","A">> \o title

\* The file the collaborator leaves for item k (the k-th entry, or the video).
WrittenFile(title, how, k) ==
    IF how = "raw" THEN {File(Mp3(title), k)}
    ELSE IF how = "other" THEN {File(Mp3(OtherName(title)), k)}
    ELSE {}

\* The workspace after the collaborator has fetched items 1..k of x: a later
\* item written under the name of an earlier one replaces it.
RECURSIVE FilesWritten(_, _)
FilesWritten(x, k) ==
    IF k = 0 THEN {}
    ELSE LET item == IF x.collection THEN x.entries[k] ELSE Some(x.title)
             new  == IF item.some THEN WrittenFile(item.val, x.written[k], k) ELSE {}
         IN  {f \in FilesWritten(x, k - 1) : f.name \notin Names(new)} \cup new

(***************************************************************************)
(* download_audio: the body of _do_download, one entry at a time.          *)
(***************************************************************************)
Track(filepath, title, playlist) ==
    [filepath |-> filepath, title |-> title, playlist |-> playlist]

\* entries = info.get("entries") or [info]
Entries(x) == IF x.entries # <<>> THEN x.entries ELSE <<Entry(x.title)>>

\* playlist_title = info.get("title") if info.get("entries") else None
PlaylistTitle(x) == IF x.entries # <<>> THEN Some(x.title) ELSE None

\* sanitize_filename(playlist_title) if playlist_title else None
PlaylistField(playlist_title) ==
    IF playlist_title.some /\ playlist_title.val # <<>>
    THEN Some(sanitize_filename(playlist_title.val))
    ELSE None

\* The files the fallback scan may take: the names os.listdir yields that end in
\* .mp3 and are not among the filepath values of the results so far (a bare name
\* is compared with the joined paths).
FallbackCandidates(files, results) ==
    {f.name : f \in {g \in files :
        /\ EndsWithMp3(g.name)
        /\ g.name \notin {results[i].filepath : i \in 1..Len(results)}}}

\* os.rename(original, final) in the workspace: the file takes the new name, and
\* a file already under that name is replaced.
Rename(files, original, final) ==
    LET moved == CHOOSE f \in files : f.name = original
    IN  {f \in files : f.name \notin {original, final}} \cup {File(final, moved.src)}

\* Lines 180-210 for one entry that is not None: the workspace and the results
\* it can leave (the scan takes the first candidate in os.listdir's order, which
\* is any of them).
ResolveEntry(files, results, raw_title, playlist_title) ==
    LET clean         == sanitize_filename(raw_title)
        original_path == Join(TmpDir, Mp3(raw_title))
        final_path    == Join(TmpDir, Mp3(clean))
        add(path)     == Append(results, Track(path, clean, PlaylistField(playlist_title)))
    IN  IF isfile(files, original_path) /\ original_path # final_path
        THEN { [files |-> Rename(files, Mp3(raw_title), Mp3(clean)),
                results |-> add(final_path)] }
        ELSE IF ~isfile(files, final_path) /\ FallbackCandidates(files, results) # {}
        THEN { [files |-> files, results |-> add(Join(TmpDir, f))]
                 : f \in FallbackCandidates(files, results) }
        ELSE { [files |-> files, results |-> add(final_path)] }

\* A _dl_progress whose handoff goes through: the call returns.
dl_progress_returns(current, total, title) == FALSE

\* handle_message._dl_progress(current, total, title) as download_audio calls
\* it, on the executor's worker thread. Its first step, asyncio.get_event_loop(),
\* raises RuntimeError in a thread that has no current event loop, so neither
\* call_soon_threadsafe nor _edit_progress is reached: TRUE when the call raises.
dl_progress(current, total, title) == TRUE

\* if progress_callback: progress_callback(idx, len(entries), clean)
\* TRUE when the call raises. A callback other than _dl_progress is one that
\* records its arguments and returns.
CallbackRaises(callback, current, total, title) ==
    IF callback = "dl_progress" THEN dl_progress(current, total, title) ELSE FALSE

\* A call of progress_callback: its arguments, and the number of items
\* extract_info had fetched when the call was made.
Event(current, total, title, fetched) ==
    [current |-> current, total |-> total, title |-> title, fetched |-> fetched]

\* The calls of progress_callback after one more entry: none is made without a
\* callback.
Emit(evs, callback, current, total, title, fetched) ==
    IF callback = "None" THEN evs
    ELSE Append(evs, Event(current, total, title, fetched))

\* The edits handed to the event loop after a call of the callback:
\* _dl_progress hands one over if it gets as far as call_soon_threadsafe.
HandOver(sched, callback, current, total, title) ==
    IF callback = "dl_progress" /\ ~dl_progress(current, total, title)
    THEN Append(sched, [kind |-> "progress", title |-> title, n |-> current,
                        total |-> total])
    ELSE sched

(***************************************************************************)
(* The state.                                                              *)
(***************************************************************************)
VARIABLES
    store,              \* the remote store: a set of DriveObject
    nextId,             \* the index in IdPool of the next id the store hands out
    apiLog,             \* the calls of drive_utils functions made so far
    configured,         \* <<GOOGLE_DRIVE_FOLDER_ID is set, the credentials file exists>>
    progress_callback,  \* the progress_callback download_audio is given
    pc,                 \* where handle_message stands
    text,               \* update.message.text.strip()
    playlist,           \* is_playlist_url(text)
    outbox,             \* what the job sent to the chat, in order
    wsCreated,          \* the job has called tempfile.mkdtemp
    wsExists,           \* the job's directory exists
    files,              \* the files in the job's directory
    rmtrees,            \* the calls of shutil.rmtree the job made
    wpc,                \* where _do_download stands on the worker
    info,               \* what extract_info returned
    widx,               \* idx of the loop over entries
    results,            \* results of download_audio
    werr,               \* the exception that ended _do_download
    tracks,             \* tracks of handle_message
    didx,               \* the index of the track the delivery loop is at
    target_folder,      \* target_folder of handle_message
    pending,            \* how the try block ended, while finally runs
    outcome,            \* how the job ended
    events,             \* the calls of progress_callback the worker made
    scheduled,          \* the status edits the worker handed to the event loop
    arg,                \* the argument of a pure function called on its own
    val,                \* what the pure function returned for it
    callers             \* the create_folder calls under way, one for each process

driveVars == <<store, nextId, apiLog, callers>>
callbackVars == <<progress_callback, events, scheduled>>
pureVars == <<arg, val>>
workerVars == <<wpc, info, widx, results, werr>>
jobVars ==
    <<pc, text, playlist, outbox, wsCreated, wsExists, files, rmtrees,
      tracks, didx, target_folder, pending, outcome>>
vars == <<driveVars, configured, callbackVars, pureVars, workerVars, jobVars>>

NoInfo ==
    [kind |-> "None", diag |-> <<>>, collection |-> FALSE, title |-> <<>>,
     entries |-> <<>>, written |-> <<>>]
NoError == [type |-> "None", diag |-> <<>>]

\* No pure function is being called on its own.
NoPureCall == arg = <<>> /\ val = <<>>

\* A message of the job to the chat: a reply, an audio attachment, or an edit of
\* the status message that _edit_progress requested. An edit request that fails
\* is swallowed by _edit_progress (except Exception: pass), so the handler goes
\* on the same way whether it failed or not.
Msg(kind, title, n, total) ==
    [kind |-> kind, title |-> title, n |-> n, total |-> total]

\* The processes that use the store at the same time: this bot and one more
\* user of the same service account and root folder.
Processes == {"bot", "other"}

\* A process that is not inside create_folder.
NotCalling ==
    [at |-> "off", name |-> <<>>, parent |-> "None", existing |-> "None",
     ret |-> "None"]

InitCommon ==
    /\ callers = [p \in Processes |-> NotCalling]
    /\ store = {}
    /\ nextId = 1
    /\ apiLog = <<>>
    /\ pc = "idle"
    /\ text = <<>>
    /\ playlist = FALSE
    /\ outbox = <<>>
    /\ wsCreated = FALSE
    /\ wsExists = FALSE
    /\ files = {}
    /\ rmtrees = 0
    /\ wpc = "off"
    /\ info = NoInfo
    /\ widx = 0
    /\ results = <<>>
    /\ werr = NoError
    /\ tracks = <<>>
    /\ didx = 0
    /\ target_folder = "None"
    /\ pending = "none"
    /\ outcome = "none"
    /\ events = <<>>
    /\ scheduled = <<>>

(***************************************************************************)
(* handle_message: validation, the fetch and its failures.                 *)
(***************************************************************************)
NeedlePrivate == <<"p","r","i","v","a","t","e">>
NeedleUnavailable == <<"u","n","a","v","a","i","l","a","b","l","e">>
NeedleRemoved == <<"r","e","m","o","v","e","d">>
NeedleGeo == <<"g","e","o">>
NeedleCountry == <<"c","o","u","n","t","r","y">>
NeedleSignIn == <<"s","i","g","n"," ","i","n">>
NeedleBot == <<"b","o","t">>
NeedleRequestedFormat == <<"r","e","q","u","e","s","t","e","d"," ","f","o","r","m","a","t">>
NeedleFormat == <<"f","o","r","m","a","t">>

\* The chain with its first two tests in the other order.
Friendly_unavailable_first(msg) ==
    IF Contains(msg, NeedleUnavailable) \/ Contains(msg, NeedleRemoved) THEN "unavailable"
    ELSE IF Contains(msg, NeedlePrivate) THEN "private"
    ELSE IF Contains(msg, NeedleGeo) \/ Contains(msg, NeedleCountry) THEN "geo-restricted"
    ELSE IF Contains(msg, NeedleSignIn) \/ Contains(msg, NeedleBot) THEN "sign-in"
    ELSE IF Contains(msg, NeedleRequestedFormat) \/ Contains(msg, NeedleFormat)
         THEN "format-unavailable"
    ELSE "generic"

\* The if/elif chain over msg = str(exc).lower(): which friendly text is chosen.
Friendly(msg) ==
    IF Contains(msg, NeedlePrivate) THEN "private"
    ELSE IF Contains(msg, NeedleUnavailable) \/ Contains(msg, NeedleRemoved) THEN "unavailable"
    ELSE IF Contains(msg, NeedleGeo) \/ Contains(msg, NeedleCountry) THEN "geo-restricted"
    ELSE IF Contains(msg, NeedleSignIn) \/ Contains(msg, NeedleBot) THEN "sign-in"
    ELSE IF Contains(msg, NeedleRequestedFormat) \/ Contains(msg, NeedleFormat)
         THEN "format-unavailable"
    ELSE "generic"

\* The awaits of handle_message, where the task can be cancelled.
Awaits ==
    {"reply_reject", "reply_status", "fetching", "edit_failure", "edit_nothing",
     "edit_downloaded", "reply_audio", "edit_done_direct", "edit_uploading",
     "edit_done_store"}

\* The try block is left: finally runs if the job is inside it.
Leave(how) ==
    IF wsCreated
    THEN pc' = "finally" /\ pending' = how /\ outcome' = outcome
    ELSE pc' = "done" /\ pending' = pending /\ outcome' = how

\* A handler that does not validate the text.
Validate_skipped(txt) == "reply_status"

\* if not is_youtube_url(text): the await the handler goes to first.
Validate(txt) == IF is_youtube_url(txt) THEN "reply_status" ELSE "reply_reject"

\* A text message arrives and handle_message starts.
Receive(t) ==
    /\ pc \in {"idle", "done"}
    /\ nextId <= MaxObjects
    /\ text' = StripChars(t, Whitespace)
    /\ playlist' = is_playlist_url(text')
    /\ pc' = Validate(text')
    /\ outbox' = <<>>
    /\ wsCreated' = FALSE
    /\ wsExists' = FALSE
    /\ files' = {}
    /\ rmtrees' = 0
    /\ wpc' = "off"
    /\ info' = NoInfo
    /\ widx' = 0
    /\ results' = <<>>
    /\ werr' = NoError
    /\ tracks' = <<>>
    /\ didx' = 0
    /\ target_folder' = "None"
    /\ pending' = "none"
    /\ outcome' = "none"
    /\ apiLog' = <<>>
    /\ events' = <<>>
    /\ UNCHANGED <<store, nextId, callers, configured, progress_callback, scheduled,
                   pureVars>>

\* await update.message.reply_text(<rejection>); return
RejectReplied(ok) ==
    /\ pc = "reply_reject"
    /\ outbox' = IF ok THEN Append(outbox, Msg("reject", <<>>, 0, 0)) ELSE outbox
    /\ pc' = "done"
    /\ outcome' = IF ok THEN "rejected" ELSE "TelegramError"
    /\ UNCHANGED <<driveVars, configured, callbackVars, pureVars, workerVars, text,
                   playlist, wsCreated, wsExists, files, rmtrees, tracks, didx,
                   target_folder, pending>>

\* status_msg = await update.message.reply_text(...); tmpdir = tempfile.mkdtemp(...);
\* download_audio(...) up to its await of loop.run_in_executor(None, _do_download)
StatusReplied(ok) ==
    /\ pc = "reply_status"
    /\ IF ok
       THEN /\ outbox' = Append(outbox, Msg("status", <<>>, 0, 0))
            /\ wsCreated' = TRUE
            /\ wsExists' = TRUE
            /\ wpc' = "extract"
            /\ pc' = "fetching"
            /\ outcome' = outcome
       ELSE /\ pc' = "done"
            /\ outcome' = "TelegramError"
            /\ UNCHANGED <<outbox, wsCreated, wsExists, wpc>>
    /\ UNCHANGED <<driveVars, configured, callbackVars, pureVars, info, widx, results, werr,
                   text, playlist, files, rmtrees, tracks, didx, target_folder,
                   pending>>

\* The task is cancelled at an await: CancelledError is raised there. The worker
\* thread is not stopped; what it does from then on reaches the job no more.
Cancel ==
    /\ pc \in Awaits
    /\ Leave("cancelled")
    /\ wpc' = "off"
    /\ info' = NoInfo
    /\ widx' = 0
    /\ results' = <<>>
    /\ werr' = NoError
    /\ events' = <<>>
    /\ UNCHANGED <<driveVars, configured, progress_callback, scheduled, pureVars, text,
                   playlist, outbox, wsCreated, wsExists, files, rmtrees, tracks, didx,
                   target_folder>>

\* Worker: info = ydl.extract_info(url, download=True) and the three lines after
\* it. info.get on None raises AttributeError.
Extract(x) ==
    /\ pc = "fetching"
    /\ wpc = "extract"
    /\ IF x.kind = "DownloadError"
       THEN /\ wpc' = "raised"
            /\ werr' = [type |-> "DownloadError", diag |-> x.diag]
            /\ UNCHANGED <<info, widx, files>>
       ELSE IF x.kind = "None"
       THEN /\ wpc' = "raised"
            /\ werr' = [type |-> "AttributeError", diag |-> <<>>]
            /\ UNCHANGED <<info, widx, files>>
       ELSE /\ wpc' = "entries"
            /\ info' = x
            /\ widx' = 1
            /\ files' = FilesWritten(x, Len(x.written))
            /\ werr' = werr
    /\ UNCHANGED <<driveVars, configured, callbackVars, pureVars, results, pc, text,
                   playlist, outbox, wsCreated, wsExists, rmtrees, tracks, didx,
                   target_folder, pending, outcome>>

\* Worker: one turn of `for idx, entry in enumerate(entries, 1)', and the end of
\* the loop after the last one.
NextEntry ==
    /\ pc = "fetching"
    /\ wpc = "entries"
    /\ LET entry == Entries(info)[widx]
           total == Len(Entries(info))
           after == IF widx = total THEN "returned" ELSE "entries"
       IN  IF ~entry.some
           THEN /\ wpc' = after
                /\ UNCHANGED <<files, results, werr, events, scheduled>>
           ELSE /\ \E r \in ResolveEntry(files, results, entry.val, PlaylistTitle(info)) :
                       files' = r.files /\ results' = r.results
                /\ events' = Emit(events, progress_callback, widx, total,
                                  sanitize_filename(entry.val), Len(info.written))
                /\ scheduled' = HandOver(scheduled, progress_callback, widx, total,
                                         sanitize_filename(entry.val))
                /\ IF CallbackRaises(progress_callback, widx, total,
                                     sanitize_filename(entry.val))
                   THEN wpc' = "raised" /\ werr' = [type |-> "RuntimeError", diag |-> <<>>]
                   ELSE wpc' = after /\ werr' = werr
    /\ widx' = widx + 1
    /\ UNCHANGED <<driveVars, configured, progress_callback, pureVars, info, pc, text,
                   playlist, outbox, wsCreated, wsExists, rmtrees, tracks, didx,
                   target_folder, pending, outcome>>

\* A handler that does not test for an empty batch.
AfterFetch_no_test(trs) == "edit_downloaded"

\* if not tracks: the await the handler goes to with the batch it got.
AfterFetch(trs) == IF trs = <<>> THEN "edit_nothing" ELSE "edit_downloaded"

\* await download_audio(...) ends: with tracks, with DownloadError (caught), or
\* with another exception (not caught by the except clause).
FetchEnds ==
    /\ pc = "fetching"
    /\ wpc \in {"returned", "raised"}
    /\ IF wpc = "raised"
       THEN /\ IF werr.type = "DownloadError"
               THEN pc' = "edit_failure" /\ UNCHANGED <<pending, outcome>>
               ELSE Leave(werr.type)
            /\ tracks' = tracks
       ELSE /\ tracks' = results
            /\ pc' = AfterFetch(results)
            /\ UNCHANGED <<pending, outcome>>
    /\ wpc' = "off"
    /\ info' = NoInfo
    /\ widx' = 0
    /\ UNCHANGED <<driveVars, configured, callbackVars, pureVars, results, werr, text, playlist,
                   outbox, wsCreated, wsExists, files, rmtrees, didx, target_folder>>

\* await _edit_progress(status_msg, friendly); return
EditFailure ==
    /\ pc = "edit_failure"
    /\ outbox' = Append(outbox, Msg(Friendly(Lower(werr.diag)), werr.diag, 0, 0))
    /\ Leave("fetch_failed")
    /\ UNCHANGED <<driveVars, configured, callbackVars, pureVars, workerVars, text,
                   playlist, wsCreated, wsExists, files, rmtrees, tracks, didx,
                   target_folder>>

\* await _edit_progress(status_msg, "No tracks were downloaded..."); return
EditNothing ==
    /\ pc = "edit_nothing"
    /\ outbox' = Append(outbox, Msg("nothing", <<>>, 0, 0))
    /\ Leave("nothing")
    /\ UNCHANGED <<driveVars, configured, callbackVars, pureVars, workerVars, text,
                   playlist, wsCreated, wsExists, files, rmtrees, tracks, didx,
                   target_folder>>

\* rmtree without ignore_errors: a failed delete becomes the job's outcome.
rmtree_outcome_raising(how, ok) == IF ok THEN how ELSE "OSError"

\* shutil.rmtree(tmpdir, ignore_errors=True): how the job ends when the delete
\* succeeded (ok) or failed, the try block having ended as `how'.
rmtree_outcome(how, ok) == how

\* finally: shutil.rmtree(tmpdir, ignore_errors=True)
Cleanup(ok) ==
    /\ pc = "finally"
    /\ rmtrees' = rmtrees + 1
    /\ wsExists' = ~ok
    /\ files' = IF ok THEN {} ELSE files
    /\ outcome' = rmtree_outcome(pending, ok)
    /\ pc' = "done"
    /\ UNCHANGED <<driveVars, configured, callbackVars, pureVars, workerVars, text,
                   playlist, outbox, wsCreated, tracks, didx, target_folder, pending>>

\* The steps of a job up to the end of the fetch, and its teardown.
FetchNext ==
    \/ \E t \in Texts : Receive(t)
    \/ \E ok \in BOOLEAN : RejectReplied(ok)
    \/ \E ok \in BOOLEAN : StatusReplied(ok)
    \/ Cancel
    \/ \E x \in Extractions : Extract(x)
    \/ NextEntry
    \/ FetchEnds
    \/ EditFailure
    \/ EditNothing
    \/ \E ok \in BOOLEAN : Cleanup(ok)

(***************************************************************************)
(* handle_message: delivery (lines 371-421).                               *)
(***************************************************************************)
\* The truth value Python gives an optional string: None and "" are false.
Truthy(opt) == opt.some /\ opt.val # <<>>

\* not GOOGLE_DRIVE_FOLDER_ID or not os.path.isfile(GOOGLE_SERVICE_ACCOUNT_FILE)
DirectMode(cfg) == ~cfg[1] \/ ~cfg[2]

\* The first track at or after index `from' whose os.path.isfile test passes, 0 if
\* there is none: the loops skip the others.
NextWithFile(trs, fls, from) ==
    LET has == {i \in from..Len(trs) : isfile(fls, trs[i].filepath)}
    IN  IF has = {} THEN 0 ELSE CHOOSE i \in has : \A j \in has : i <= j

\* The count the final report states: len(tracks) in both modes.
ReportCount(trs, fls) == Len(trs)

\* A call of a drive_utils function, as the log keeps it: the function and its
\* arguments, the ids the folder held under the name before the call, and its
\* Outcome without the store.
Call(fn, name, parent, st, o) ==
    [fn |-> fn, name |-> name, parent |-> parent,
     existing |-> {f.id : f \in Matches(st, parent, name)},
     raised |-> o.raised, ret |-> o.ret, ops |-> o.ops,
     changed |-> o.store # st]

\* The loop over tracks moves on from index `from': to the next track with a file,
\* or to the final report.
LoopFrom(from, at_track, at_end) ==
    LET next == NextWithFile(tracks, files, from)
    IN  /\ didx' = next
        /\ pc' = IF next = 0 THEN at_end ELSE at_track

\* await _edit_progress(status_msg, "Downloaded <N> track(s)..."), then the test
\* of line 380.
EditDownloaded ==
    /\ pc = "edit_downloaded"
    /\ outbox' = Append(outbox, Msg("downloaded", <<>>, Len(tracks), 0))
    /\ IF DirectMode(configured)
       THEN LoopFrom(1, "reply_audio", "edit_done_direct")
       ELSE pc' = "get_drive_service" /\ didx' = didx
    /\ UNCHANGED <<driveVars, configured, callbackVars, pureVars, workerVars, text,
                   playlist, wsCreated, wsExists, files, rmtrees, tracks,
                   target_folder, pending, outcome>>

\* with open(t["filepath"], "rb") as audio_file:
\*     await update.message.reply_audio(audio=audio_file, title=t["title"])
ReplyAudio(ok) ==
    /\ pc = "reply_audio"
    /\ IF ok
       THEN /\ outbox' = Append(outbox, Msg("audio", tracks[didx].title, didx, Len(tracks)))
            /\ LoopFrom(didx + 1, "reply_audio", "edit_done_direct")
            /\ UNCHANGED <<pending, outcome>>
       ELSE /\ Leave("TelegramError")
            /\ UNCHANGED <<outbox, didx>>
    /\ UNCHANGED <<driveVars, configured, callbackVars, pureVars, workerVars, text,
                   playlist, wsCreated, wsExists, files, rmtrees, tracks,
                   target_folder>>

\* await _edit_progress(status_msg, "Done! <N> file(s) sent directly..."); return
EditDoneDirect ==
    /\ pc = "edit_done_direct"
    /\ outbox' = Append(outbox, Msg("done_direct", <<>>, ReportCount(tracks, files), 0))
    /\ Leave("sent_direct")
    /\ UNCHANGED <<driveVars, configured, callbackVars, pureVars, workerVars, text,
                   playlist, wsCreated, wsExists, files, rmtrees, tracks, didx,
                   target_folder>>

\* if playlist and playlist_name
WantsFolder(is_playlist, trs) == is_playlist /\ Truthy(trs[1].playlist)

\* service = get_drive_service(...); target_folder = GOOGLE_DRIVE_FOLDER_ID;
\* playlist_name = tracks[0].get("playlist")
GetDriveService(ok) ==
    /\ pc = "get_drive_service"
    /\ apiLog' = Append(apiLog,
                        [fn |-> "get_drive_service", name |-> <<>>, parent |-> "None",
                         existing |-> {}, raised |-> ~ok, ret |-> "None", ops |-> <<>>,
                         changed |-> FALSE])
    /\ IF ok
       THEN /\ target_folder' = RootId
            /\ IF WantsFolder(playlist, tracks)
               THEN pc' = "create_folder" /\ didx' = didx
               ELSE LoopFrom(1, "edit_uploading", "edit_done_store")
            /\ UNCHANGED <<pending, outcome>>
       ELSE /\ Leave("DriveError")
            /\ UNCHANGED <<target_folder, didx>>
    /\ UNCHANGED <<store, nextId, callers, configured, callbackVars, pureVars, workerVars, text,
                   playlist, outbox, wsCreated, wsExists, files, rmtrees, tracks>>

\* target_folder = create_folder(service, playlist_name, GOOGLE_DRIVE_FOLDER_ID)
CreateFolder ==
    /\ pc = "create_folder"
    /\ \E o \in create_folder(store, nextId, tracks[1].playlist.val, RootId) :
          /\ apiLog' = Append(apiLog, Call("create_folder", tracks[1].playlist.val,
                                           RootId, store, o))
          /\ store' = o.store
          /\ nextId' = o.nextId
          /\ IF o.raised
             THEN /\ Leave("DriveError")
                  /\ UNCHANGED <<target_folder, didx>>
             ELSE /\ target_folder' = o.ret
                  /\ LoopFrom(1, "edit_uploading", "edit_done_store")
                  /\ UNCHANGED <<pending, outcome>>
    /\ UNCHANGED <<callers, configured, callbackVars, pureVars, workerVars, text, playlist, outbox,
                   wsCreated, wsExists, files, rmtrees, tracks>>

\* await _edit_progress(status_msg, "Uploading <title> ... idx/len(tracks)")
EditUploading ==
    /\ pc = "edit_uploading"
    /\ outbox' = Append(outbox, Msg("uploading", tracks[didx].title, didx, Len(tracks)))
    /\ pc' = "upload_file"
    /\ UNCHANGED <<driveVars, configured, callbackVars, pureVars, workerVars, text,
                   playlist, wsCreated, wsExists, files, rmtrees, tracks, didx,
                   target_folder, pending, outcome>>

\* upload_file(service, t["filepath"], target_folder)
UploadFile ==
    /\ pc = "upload_file"
    /\ \E o \in upload_file(store, nextId, Basename(tracks[didx].filepath), target_folder) :
          /\ apiLog' = Append(apiLog, Call("upload_file", Basename(tracks[didx].filepath),
                                           target_folder, store, o))
          /\ store' = o.store
          /\ nextId' = o.nextId
          /\ IF o.raised
             THEN /\ Leave("DriveError")
                  /\ didx' = didx
             ELSE /\ LoopFrom(didx + 1, "edit_uploading", "edit_done_store")
                  /\ UNCHANGED <<pending, outcome>>
    /\ UNCHANGED <<callers, configured, callbackVars, pureVars, workerVars, text, playlist, outbox,
                   wsCreated, wsExists, files, rmtrees, tracks, target_folder>>

\* await _edit_progress(status_msg, done_text): "<N> track(s) uploaded to Google
\* Drive", with the playlist folder line if playlist_name
EditDoneStore ==
    /\ pc = "edit_done_store"
    /\ outbox' = Append(outbox,
                        Msg("done_store",
                            IF Truthy(tracks[1].playlist) THEN tracks[1].playlist.val ELSE <<>>,
                            ReportCount(tracks, files), 0))
    /\ Leave("uploaded")
    /\ UNCHANGED <<driveVars, configured, callbackVars, pureVars, workerVars, text,
                   playlist, wsCreated, wsExists, files, rmtrees, tracks, didx,
                   target_folder>>

DeliveryNext ==
    \/ EditDownloaded
    \/ \E ok \in BOOLEAN : ReplyAudio(ok)
    \/ EditDoneDirect
    \/ \E ok \in BOOLEAN : GetDriveService(ok)
    \/ CreateFolder
    \/ UploadFile
    \/ EditUploading
    \/ EditDoneStore

(***************************************************************************)
(* drive_utils called on its own, as its tests call it.                    *)
(***************************************************************************)
FolderNames == {TitleMix, Mp3(TitleSong)}
FileNames == {Mp3(TitleSong), Mp3(TitleMix)}

ApiCreateFolder(name, parent) ==
    /\ Len(apiLog) < MaxCalls
    /\ \E o \in create_folder(store, nextId, name, parent) :
          /\ apiLog' = Append(apiLog, Call("create_folder", name, parent, store, o))
          /\ store' = o.store
          /\ nextId' = o.nextId
    /\ UNCHANGED <<callers, configured, callbackVars, pureVars, workerVars, jobVars>>

ApiUploadFile(filename, folder_id) ==
    /\ Len(apiLog) < MaxCalls
    /\ \E o \in upload_file(store, nextId, filename, folder_id) :
          /\ apiLog' = Append(apiLog, Call("upload_file", filename, folder_id, store, o))
          /\ store' = o.store
          /\ nextId' = o.nextId
    /\ UNCHANGED <<callers, configured, callbackVars, pureVars, workerVars, jobVars>>

\* The folders a call can name: the configured root and the folders of the store.
Folders == {RootId} \cup {f.id : f \in {g \in store : g.folder}}

DriveNext ==
    \/ \E name \in FolderNames, parent \in Folders : ApiCreateFolder(name, parent)
    \/ \E filename \in FileNames, folder_id \in Folders : ApiUploadFile(filename, folder_id)

(***************************************************************************)
(* create_folder called by two processes on one store. Its two requests,   *)
(* the files().list of find_file_in_folder and the files().create, are     *)
(* two HTTP requests: the store serves the requests of the other process   *)
(* between them.                                                           *)
(***************************************************************************)
\* existing = find_file_in_folder(service, parent_folder_id, folder_name)
\* if existing: return existing
FolderLookup(p, folder_name, parent_folder_id) ==
    /\ callers[p].at = "off"
    /\ \E existing \in find_file_in_folder(store, parent_folder_id, folder_name)
                       \cup {"HttpError"} :
          callers' = [callers EXCEPT ![p] =
                         [at |-> CASE existing = "HttpError" -> "raised"
                                   [] existing = "None" -> "create"
                                   [] OTHER -> "returned",
                          name |-> folder_name, parent |-> parent_folder_id,
                          existing |-> existing,
                          ret |-> IF existing = "HttpError" THEN "None" ELSE existing]]
    /\ UNCHANGED <<store, nextId, apiLog, configured, callbackVars, pureVars,
                   workerVars, jobVars>>

\* folder = service.files().create(body=file_metadata, fields="id").execute()
\* return folder.get("id")
FolderCreate(p) ==
    /\ callers[p].at = "create"
    /\ \E o \in CreateRequest(store, nextId, callers[p].name, callers[p].parent, TRUE,
                              <<>>) :
          /\ store' = o.store
          /\ nextId' = o.nextId
          /\ callers' = [callers EXCEPT ![p].at = IF o.raised THEN "raised" ELSE "returned",
                                        ![p].ret = o.ret]
    /\ UNCHANGED <<apiLog, configured, callbackVars, pureVars, workerVars, jobVars>>

SharedNext ==
    \/ \E p \in Processes, name \in FolderNames : FolderLookup(p, name, RootId)
    \/ \E p \in Processes : FolderCreate(p)

(***************************************************************************)
(* download_audio called on its own, in a fresh directory, with no callback *)
(* or with one that records its calls.                                     *)
(***************************************************************************)
\* download_audio(url, output_dir, progress_callback) up to its await of
\* loop.run_in_executor(None, _do_download)
CallDownloadAudio ==
    /\ pc = "idle"
    /\ pc' = "fetching"
    /\ wpc' = "extract"
    /\ wsCreated' = TRUE
    /\ wsExists' = TRUE
    /\ UNCHANGED <<driveVars, configured, callbackVars, pureVars, info, widx, results,
                   werr, text, playlist, outbox, files, rmtrees, tracks, didx,
                   target_folder, pending, outcome>>

\* await loop.run_in_executor(None, _do_download); return results
DownloadAudioEnds ==
    /\ pc = "fetching"
    /\ wpc \in {"returned", "raised"}
    /\ pc' = "done"
    /\ wpc' = "off"
    /\ tracks' = IF wpc = "returned" THEN results ELSE tracks
    /\ outcome' = IF wpc = "returned" THEN "returned" ELSE werr.type
    /\ UNCHANGED <<driveVars, configured, callbackVars, pureVars, info, widx, results,
                   werr, text, playlist, outbox, wsCreated, wsExists, files, rmtrees,
                   didx, target_folder, pending>>

DownloadNext ==
    \/ CallDownloadAudio
    \/ \E x \in Extractions : Extract(x)
    \/ NextEntry
    \/ DownloadAudioEnds

(***************************************************************************)
(* The pure functions called on their own.                                 *)
(***************************************************************************)
\* The longest title given to sanitize_filename, and the number of times it is
\* applied in a row.
MaxTitleLen == 4
MaxApply == 2

\* The characters of the titles: of the descriptor tags only HD can be written
\* with them.
TitleChars == {"H", "D", "a", " ", "-"}

TitleInputs == UNION { [1..n -> TitleChars] : n \in 0..MaxTitleLen }

\* sanitize_filename applied to the title, then to what it returned.
Sanitize ==
    /\ Len(val) < MaxApply
    /\ val' = Append(val, sanitize_filename(IF val = <<>> THEN arg ELSE val[Len(val)]))
    /\ UNCHANGED <<driveVars, configured, callbackVars, arg, workerVars, jobVars>>

\* The schemes "", "https://", "http://", "HTTPS://" and the prefixes "", "www.",
\* "m.", "WWW." a text is written with.
Schemes == {<<>>, <<"h","t","t","p","s",":","/","/">>, <<"h","t","t","p",":","/","/">>, <<"H","T","T","P","S",":","/","/">>}
Prefixes == {<<>>, <<"w","w","w",".">>, <<"m",".">>, <<"W","W","W",".">>}

\* The forms of text: the host each names, its path, whether it is a link to
\* the media host with an identifier (link), and whether it carries a list=
\* parameter (list).
LinkForm(name, host, path, link, list) ==
    [name |-> name, host |-> host, path |-> path, link |-> link, list |-> list]

\* The paths are /watch?v=ab1, /watch?v=ab1&list=PL1, /watch?list=PL1&v=ab1,
\* /playlist?list=PL1, /shorts/ab1, /shorts/ab1?list=PL1, /ab1, /ab1?list=PL1, /,
\* /watch?v=ab1 on another host, /?u=youtu.be/ab1 on another host, and nothing.
LinkForms ==
    { LinkForm("watch", "long", <<"/","w","a","t","c","h","?","v","=","a","b","1">>, TRUE, FALSE),
      LinkForm("watch_list", "long", <<"/","w","a","t","c","h","?","v","=","a","b","1","&","l","i","s","t","=","P","L","1">>, TRUE, TRUE),
      LinkForm("list_watch", "long", <<"/","w","a","t","c","h","?","l","i","s","t","=","P","L","1","&","v","=","a","b","1">>, TRUE, TRUE),
      LinkForm("playlist", "long", <<"/","p","l","a","y","l","i","s","t","?","l","i","s","t","=","P","L","1">>, TRUE, TRUE),
      LinkForm("shorts", "long", <<"/","s","h","o","r","t","s","/","a","b","1">>, TRUE, FALSE),
      LinkForm("shorts_list", "long", <<"/","s","h","o","r","t","s","/","a","b","1","?","l","i","s","t","=","P","L","1">>, TRUE, TRUE),
      LinkForm("short_link", "short", <<"/","a","b","1">>, TRUE, FALSE),
      LinkForm("short_link_list", "short", <<"/","a","b","1","?","l","i","s","t","=","P","L","1">>, TRUE, TRUE),
      LinkForm("short_link_no_id", "short", <<"/">>, FALSE, FALSE),
      LinkForm("other_host", "other", <<"/","w","a","t","c","h","?","v","=","a","b","1">>, FALSE, FALSE),
      LinkForm("other_host_quoting", "other", <<"/","?","u","=","y","o","u","t","u",".","b","e","/","a","b","1">>, FALSE, FALSE),
      LinkForm("empty", "none", <<>>, FALSE, FALSE) }

\* The host of a form as it is written, in lower or in upper case: youtube.com,
\* youtu.be, example.com.
HostText(host, upper) ==
    IF host = "long" THEN (IF upper THEN <<"Y","O","U","T","U","B","E",".","C","O","M">> ELSE <<"y","o","u","t","u","b","e",".","c","o","m">>)
    ELSE IF host = "short" THEN (IF upper THEN <<"Y","O","U","T","U",".","B","E">> ELSE <<"y","o","u","t","u",".","b","e">>)
    ELSE IF host = "other" THEN (IF upper THEN <<"E","X","A","M","P","L","E",".","C","O","M">> ELSE <<"e","x","a","m","p","l","e",".","c","o","m">>)
    ELSE <<>>

\* The texts given to is_youtube_url and is_playlist_url, each with the form it
\* was written from.
UrlInputs ==
    { [text |-> s \o p \o HostText(f.host, u) \o f.path, form |-> f, upper |-> u]
        : s \in Schemes, p \in Prefixes, f \in LinkForms, u \in BOOLEAN }

\* is_youtube_url(text) and is_playlist_url(text)
Classify ==
    /\ val = <<>>
    /\ val' = <<[youtube |-> is_youtube_url(arg.text), playlist |-> is_playlist_url(arg.text)]>>
    /\ UNCHANGED <<driveVars, configured, callbackVars, arg, workerVars, jobVars>>

(***************************************************************************)
(* The specifications.                                                     *)
(*                                                                         *)
(* Spec is the bot as it runs: handle_message gives download_audio its     *)
(* _dl_progress, so the first entry that is resolved ends the fetch with   *)
(* RuntimeError and the delivery steps are never taken (DeliveryNeverRuns  *)
(* below); they are not part of Next for that reason.                      *)
(*                                                                         *)
(* SpecDelivery is handle_message whole, with download_audio given either  *)
(* _dl_progress or no progress callback: its behaviours include those of   *)
(* Spec, and with no callback the handler gets past the fetch with a       *)
(* batch, so it also shows what lines 371-421 do with a batch              *)
(* download_audio returns.                                                 *)
(*                                                                         *)
(* SpecDrive is drive_utils called on its own, SpecDownload is             *)
(* download_audio called on its own, SpecSanitize is sanitize_filename     *)
(* applied to a title and SpecUrl is the two URL tests applied to a text.  *)
(***************************************************************************)
Init ==
    /\ InitCommon
    /\ NoPureCall
    /\ configured \in BOOLEAN \X BOOLEAN
    /\ progress_callback = "dl_progress"

Next == FetchNext

Spec == Init /\ [][Next]_vars

InitDelivery ==
    /\ InitCommon
    /\ NoPureCall
    /\ configured \in BOOLEAN \X BOOLEAN
    /\ progress_callback \in {"dl_progress", "None"}

NextDelivery == FetchNext \/ DeliveryNext

SpecDelivery == InitDelivery /\ [][NextDelivery]_vars

InitDrive ==
    /\ InitCommon
    /\ NoPureCall
    /\ configured = <<TRUE, TRUE>>
    /\ progress_callback = "None"

SpecDrive == InitDrive /\ [][DriveNext]_vars

SpecShared == InitDrive /\ [][SharedNext]_vars

InitDownload ==
    /\ InitCommon
    /\ NoPureCall
    /\ configured = <<TRUE, TRUE>>
    /\ progress_callback \in {"None", "recorder"}

SpecDownload == InitDownload /\ [][DownloadNext]_vars

InitSanitize ==
    /\ InitCommon
    /\ configured = <<TRUE, TRUE>>
    /\ progress_callback = "None"
    /\ arg \in TitleInputs
    /\ val = <<>>

SpecSanitize == InitSanitize /\ [][Sanitize]_vars

InitUrl ==
    /\ InitCommon
    /\ configured = <<TRUE, TRUE>>
    /\ progress_callback = "None"
    /\ arg \in UrlInputs
    /\ val = <<>>

SpecUrl == InitUrl /\ [][Classify]_vars

\* In Spec the handler never gets past the fetch with a batch.
DeliveryNeverRuns == pc # "edit_downloaded"

(***************************************************************************)
(* What the properties below speak of.                                     *)
(***************************************************************************)
\* The indices of a sequence whose element satisfies a test, counted.
Count(seq, Test(_)) == Cardinality({i \in 1..Len(seq) : Test(seq[i])})

IsAudio(m) == m.kind = "audio"
IsFolderCall(c) == c.fn = "create_folder"
IsUploadCall(c) == c.fn = "upload_file"

\* The tracks of the fetched batch whose file is in the workspace.
WithFile == {i \in 1..Len(results) : isfile(files, results[i].filepath)}

\* The try block has ended and finally has not run yet (the workspace is as the
\* job left it), and the job was neither cancelled nor failed by the chat or
\* the remote store.
RanToEnd == pc = "finally" /\ pending \notin {"cancelled", "TelegramError", "DriveError"}

(***************************************************************************)
(* Properties.                                                             *)
(***************************************************************************)
\* C1: a job that created its workspace attempts to remove it exactly once on
\* every way out of the handler, and never before the way out; the job ends as
\* the try block ended, whether the delete succeeded or failed.
WorkspaceRemovedOnEveryExit ==
    /\ (wsCreated /\ pc = "done") => (rmtrees = 1 /\ outcome = pending)
    /\ (wsCreated /\ pc # "done") => (rmtrees = 0 /\ wsExists)
    /\ ~wsCreated => (rmtrees = 0 /\ pc # "finally")

\* A fetch failure was reported, the delete then failed, and the job still ended
\* as a fetch failure.
FailedDeleteKeepsOutcome ==
    pc = "done" /\ wsCreated /\ rmtrees = 1 /\ wsExists /\ outcome = "fetch_failed"

\* The create_folder calls that returned, by their place in the log.
FolderCallsReturned ==
    {i \in 1..Len(apiLog) : IsFolderCall(apiLog[i]) /\ ~apiLog[i].raised}

SameFolderAsked(i, j) ==
    apiLog[i].name = apiLog[j].name /\ apiLog[i].parent = apiLog[j].parent

IssuesCreate(c) == \E k \in 1..Len(c.ops) : c.ops[k].op = "create"

\* C2: of two create_folder calls with the same name and parent that return,
\* the later returns the id the earlier returned and issues no create request;
\* and the store never holds two folders of one name under one parent.
CreateFolderIdempotent ==
    /\ \A i, j \in FolderCallsReturned :
          (i < j /\ SameFolderAsked(i, j)) =>
              (apiLog[j].ret = apiLog[i].ret /\ ~IssuesCreate(apiLog[j]))
    /\ \A f, g \in store :
          (f.folder /\ g.folder /\ f.name = g.name /\ f.parent = g.parent) => f = g

\* A call created the folder, and a later call for the same name and parent
\* returned.
FolderAskedTwice ==
    \E i, j \in FolderCallsReturned :
        i < j /\ SameFolderAsked(i, j) /\ IssuesCreate(apiLog[i])

\* C3: an upload_file call for a name the target folder already holds issues
\* the lookup and nothing else, leaves the store as it was and, when it
\* returns, returns the id of the object that was there.
UploadOfPresentNameSkipped ==
    \A i \in 1..Len(apiLog) :
        (IsUploadCall(apiLog[i]) /\ apiLog[i].existing # {}) =>
            /\ \A k \in 1..Len(apiLog[i].ops) : apiLog[i].ops[k].op = "list"
            /\ ~apiLog[i].changed
            /\ ~apiLog[i].raised => apiLog[i].ret \in apiLog[i].existing

\* An upload_file call for a name that an earlier upload had put in the folder
\* returned.
UploadedTwice ==
    \E i \in 1..Len(apiLog) :
        /\ IsUploadCall(apiLog[i])
        /\ apiLog[i].existing # {}
        /\ ~apiLog[i].raised
        /\ apiLog[i].ret \in apiLog[i].existing

\* C4: a store-mode job on a collection link whose fetched tracks carry a
\* collection name, run to its end, has made exactly one create_folder call and
\* one upload_file call per track whose file exists, each into the folder that
\* call returned.
StoreCollectionUploadsIntoOneFolder ==
    (/\ RanToEnd
     /\ ~DirectMode(configured)
     /\ playlist
     /\ results # <<>>
     /\ Truthy(results[1].playlist)) =>
        LET folderCalls == SelectSeq(apiLog, IsFolderCall)
            uploads     == SelectSeq(apiLog, IsUploadCall)
        IN  /\ Len(folderCalls) = 1
            /\ Len(uploads) = Cardinality(WithFile)
            /\ \A k \in 1..Len(uploads) : uploads[k].parent = folderCalls[1].ret

\* The titles of the audio attachments sent, in order.
AudioTitles ==
    LET sent == SelectSeq(outbox, IsAudio) IN [k \in 1..Len(sent) |-> sent[k].title]

\* The titles of the fetched tracks whose file exists, in batch order.
RECURSIVE TitlesWithFile(_)
TitlesWithFile(n) ==
    IF n = 0 THEN <<>>
    ELSE IF n \in WithFile THEN Append(TitlesWithFile(n - 1), results[n].title)
    ELSE TitlesWithFile(n - 1)

\* C5: a job with the store not configured that fetched a batch, run to its
\* end, has sent one audio attachment per track whose file exists, in batch
\* order, and has called no function of the remote store.
DirectModeSendsEachTrack ==
    (RanToEnd /\ DirectMode(configured) /\ results # <<>>) =>
        (AudioTitles = TitlesWithFile(Len(results)) /\ apiLog = <<>>)

\* C6: a job that fetched a batch with a track whose file is missing, run to its
\* end, has sent nothing, uploaded nothing and shown no status for that track,
\* and has ended with a success report.
MissingFileSkippedNotFatal ==
    (RanToEnd /\ \E i \in 1..Len(results) : i \notin WithFile) =>
        /\ pending \in {"sent_direct", "uploaded"}
        /\ outbox[Len(outbox)].kind \in {"done_direct", "done_store"}
        /\ \A i \in 1..Len(results) :
              i \notin WithFile =>
                  /\ \A k \in 1..Len(outbox) :
                        outbox[k].kind \in {"audio", "uploading"} => outbox[k].n # i
                  /\ \A k \in 1..Len(apiLog) :
                        IsUploadCall(apiLog[k]) =>
                            apiLog[k].name # Basename(results[i].filepath)

\* The tracks the job delivered: audio attachments sent and upload_file calls
\* that returned.
Delivered ==
    LET Uploaded(c) == IsUploadCall(c) /\ ~c.raised
    IN  Count(outbox, IsAudio) + Count(apiLog, Uploaded)

NonLinkRejected ==
    (pc # "idle" /\ ~is_youtube_url(text)) =>
        /\ pc \in {"reply_reject", "done"}
        /\ ~wsCreated /\ ~wsExists /\ rmtrees = 0 /\ files = {}
        /\ wpc = "off" /\ info = NoInfo /\ results = <<>> /\ tracks = <<>>
        /\ apiLog = <<>>
        /\ outbox \in {<<>>, <<Msg("reject", <<>>, 0, 0)>>}
        /\ pc = "done" =>
              /\ outcome \in {"rejected", "TelegramError", "cancelled"}
              /\ outcome = "rejected" <=> outbox # <<>>

\* A text that names another host was rejected.
OtherHostRejected ==
    pc = "done" /\ text = TextOtherHost /\ outcome = "rejected"
    /\ outbox = <<Msg("reject", <<>>, 0, 0)>>

\* The six categories in priority order, each with the fragments that select it;
\* the last is selected by everything.
Categories ==
    << <<"private", {NeedlePrivate}>>,
       <<"unavailable", {NeedleUnavailable, NeedleRemoved}>>,
       <<"geo-restricted", {NeedleGeo, NeedleCountry}>>,
       <<"sign-in", {NeedleSignIn, NeedleBot}>>,
       <<"format-unavailable", {NeedleRequestedFormat, NeedleFormat}>>,
       <<"generic", {<<>>}>> >>

\* The first category, in priority order, one of whose fragments occurs in the
\* diagnostic with letter case ignored.
CategoryOf(diag) ==
    LET hit == {c \in 1..Len(Categories) :
                   \E n \in Categories[c][2] : Contains(Lower(diag), n)}
    IN  Categories[CHOOSE c \in hit : \A d \in hit : c <= d][1]

\* C9: when the fetch raised DownloadError the job shows the one category its
\* diagnostic maps to and ends there: nothing is delivered, and the workspace is
\* removed.
FetchFailureMapped ==
    werr.type = "DownloadError" =>
        /\ pc \in {"fetching", "edit_failure", "finally", "done"}
        /\ tracks = <<>> /\ apiLog = <<>>
        /\ pc \in {"finally", "done"} =>
              outbox = <<Msg("status", <<>>, 0, 0),
                         Msg(CategoryOf(werr.diag), werr.diag, 0, 0)>>
        /\ pc = "finally" => pending = "fetch_failed"
        /\ pc = "done" => (outcome = "fetch_failed" /\ rmtrees = 1)

\* A diagnostic that holds fragments of two categories was shown as the one of
\* higher priority, and the job ended.
PrivateBeatsUnavailable ==
    /\ pc = "done" /\ outcome = "fetch_failed" /\ rmtrees = 1
    /\ werr.diag = DiagPrivateUnavailable
    /\ outbox[Len(outbox)].kind = "private"

\* The extraction ended without DownloadError and with nothing usable: no info,
\* or a collection whose entries are none or all null.
NoUsableEntry ==
    /\ werr.type # "DownloadError"
    /\ \/ info.kind = "None"
       \/ info.collection /\ \A k \in 1..Len(info.entries) : ~info.entries[k].some

\* C10: when the extraction yields nothing usable, download_audio returns the
\* empty sequence: it does not raise, and it returns no track.
EmptyExtractionReturnsNothing ==
    (pc = "fetching" /\ wpc \in {"returned", "raised"} /\ NoUsableEntry) =>
        (wpc = "returned" /\ results = <<>>)

\* The fetch has returned an empty batch, and the job was not cancelled since.
FetchedNothing ==
    /\ wsCreated /\ pc # "fetching"
    /\ werr = NoError /\ results = <<>>
    /\ pending # "cancelled"

\* C11: a job whose fetch returned zero tracks goes to the nothing-downloaded
\* update and ends there: the status message gets that one update and no other,
\* no audio is sent, no function of the remote store is called, and the update is
\* none of the fetch-failure categories.
NothingDownloadedIsTerminal ==
    FetchedNothing =>
        /\ pc \in {"edit_nothing", "finally", "done"}
        /\ tracks = <<>> /\ apiLog = <<>>
        /\ pc = "edit_nothing" => outbox = <<Msg("status", <<>>, 0, 0)>>
        /\ pc \in {"finally", "done"} =>
              /\ outbox = <<Msg("status", <<>>, 0, 0), Msg("nothing", <<>>, 0, 0)>>
              /\ pending = "nothing"
        /\ pc = "done" => outcome = "nothing"

\* A job whose fetch returned no track ended as nothing-downloaded.
EndedAsNothing ==
    /\ FetchedNothing /\ pc = "done" /\ outcome = "nothing"
    /\ outbox[Len(outbox)].kind = "nothing"

\* download_audio, given a recording callback, has returned.
RecordedFetchReturned ==
    progress_callback = "recorder" /\ pc = "fetching" /\ wpc = "returned"

\* C12: a fetch that returns k tracks has made exactly k calls of the callback,
\* in track order, each with a 1-based index, the number of entries and the
\* track's sanitized title; and the call for an item was made before the
\* collaborator had fetched any later item.
ProgressEventPerItemAsCompleted ==
    RecordedFetchReturned =>
        /\ Len(events) = Len(results)
        /\ \A k \in 1..Len(events) :
              /\ events[k].title = results[k].title
              /\ events[k].total = Len(Entries(info))
              /\ events[k].current \in 1..events[k].total
              /\ \A j \in 1..(k - 1) : events[j].current < events[k].current
              /\ events[k].fetched <= events[k].current

\* C13: under _dl_progress every call the worker makes of the callback hands a
\* status edit to the event loop, and the call does not fail: the worker is
\* never ended by the callback's own exception.
ProgressHandedToLoop ==
    progress_callback = "dl_progress" =>
        /\ Len(scheduled) = Len(events)
        /\ werr.type # "RuntimeError"

\* The awaits of handle_message that are awaits of _edit_progress.
EditAwaits ==
    {"edit_failure", "edit_nothing", "edit_downloaded", "edit_uploading",
     "edit_done_direct", "edit_done_store"}

\* The edits of the status message that have started and not completed: those
\* handed to the event loop by the worker, and the one the handler awaits.
InFlight == Len(scheduled) + (IF pc \in EditAwaits THEN 1 ELSE 0)

HasTag(s) == \E w \in 1..Len(GarbageWords) : Contains(Lower(s), GarbageWords[w])

\* A plain title: letters, digits, single inner spaces and the allowed
\* punctuation only, no descriptor tag, and no trim character at either end.
Plain(s) ==
    /\ \A k \in 1..Len(s) : s[k] \in WordChars \cup {" "} \cup AllowedPunct /\ s[k] # "_"
    /\ \A k \in 1..(Len(s) - 1) : ~(s[k] = " " /\ s[k + 1] = " ")
    /\ ~HasTag(s)
    /\ s # <<>> => (s[1] \notin {" ", "-"} /\ s[Len(s)] \notin {" ", "-"})

\* C15: sanitize_filename applied to its own result returns it unchanged, and
\* it returns a plain title unchanged.
SanitizeIdempotent ==
    /\ Len(val) >= 2 => val[2] = val[1]
    /\ (Len(val) >= 1 /\ Plain(arg)) => val[1] = arg

\* C16: for a text is_youtube_url accepts, is_playlist_url is true exactly when
\* the text carries a list= parameter, whatever form the link has; and
\* is_playlist_url is true only of texts is_youtube_url accepts.
PlaylistIffListParameter ==
    val # <<>> =>
        /\ val[1].youtube => (val[1].playlist <=> arg.form.list)
        /\ val[1].playlist => val[1].youtube

\* C17: is_youtube_url is true of every link form to the media host, with or
\* without scheme and www./m. prefix and in any letter case of scheme and
\* host, and false of texts that name another host, the empty text and the
\* short-link host without an identifier.
RecognizedIffMediaLink ==
    val # <<>> => (val[1].youtube <=> arg.form.link)

\* download_audio is at work on the entries, or has returned.
Resolving == pc = "fetching" /\ wpc \in {"entries", "returned"}

\* C18: a rename in download_audio never replaces a file that is in the
\* workspace: the audio of every item the collaborator left there is still
\* there, under some name, while and after the entries are resolved.
RenameNeverOverwrites ==
    Resolving =>
        \A f \in FilesWritten(info, Len(info.written)) :
            \E g \in files : g.src = f.src

\* Track j got its file from the fallback scan: its path is not the one its
\* sanitized title gives.
ByFallback(j) == results[j].filepath # Join(TmpDir, Mp3(results[j].title))

\* C19: the fallback scan gives a track only a file that is the filepath of no
\* earlier track of the fetch.
FallbackClaimsOnce ==
    Resolving =>
        \A i, j \in 1..Len(results) :
            (i < j /\ ByFallback(j)) => results[i].filepath # results[j].filepath

\* C20: no track has an empty title or a file whose stem is empty, no file of
\* the workspace is named just ".mp3", and no folder of the remote store is
\* asked for under the empty name.
NoEmptyName ==
    /\ \A k \in 1..Len(results) :
          results[k].title # <<>> /\ Basename(results[k].filepath) # Mp3Ext
    /\ \A f \in files : f.name # Mp3Ext
    /\ \A k \in 1..Len(apiLog) : IsFolderCall(apiLog[k]) => apiLog[k].name # <<>>

\* C21: a store-mode job that fetched a batch resolves a sub-folder if and only
\* if the request was classified as a collection and the batch carries a
\* collection name: then it makes one create_folder call for that name under
\* the configured root, and otherwise it makes none and every upload goes to the
\* configured root.
FolderResolvedIffNamedCollection ==
    (/\ RanToEnd
     /\ ~DirectMode(configured)
     /\ results # <<>>) =>
        LET folderCalls == SelectSeq(apiLog, IsFolderCall)
            uploads     == SelectSeq(apiLog, IsUploadCall)
        IN  IF playlist /\ Truthy(results[1].playlist)
            THEN /\ folderCalls # <<>>
                 /\ \A k \in 1..Len(folderCalls) :
                       /\ folderCalls[k].name = results[1].playlist.val
                       /\ folderCalls[k].parent = RootId
            ELSE /\ folderCalls = <<>>
                 /\ \A k \in 1..Len(uploads) : uploads[k].parent = RootId

\* C22: when two processes have resolved the same folder name under the same
\* parent on the shared store, with their lookups and creations interleaved in
\* any way, both got the same identifier and the parent holds exactly one
\* object of that name.
ResolvedSame(p, q) ==
    /\ p # q
    /\ callers[p].at = "returned"
    /\ callers[q].at = "returned"
    /\ callers[p].name = callers[q].name
    /\ callers[p].parent = callers[q].parent

FolderResolutionDuplicateFree ==
    \A p, q \in Processes :
        ResolvedSame(p, q) =>
            /\ callers[p].ret = callers[q].ret
            /\ Cardinality(Matches(store, callers[p].parent, callers[p].name)) = 1

\* C23: the identifier a create_folder call returns is that of a folder-type
\* object under the parent the call was given, also when the parent holds a
\* non-folder file of the requested name.
FolderIdDenotesFolder ==
    \A k \in 1..Len(apiLog) :
        (IsFolderCall(apiLog[k]) /\ ~apiLog[k].raised) =>
            \E f \in store : /\ f.id = apiLog[k].ret
                             /\ f.parent = apiLog[k].parent
                             /\ f.folder

\* C24: once the job has issued a status that follows the fetch (the downloaded
\* notice, an upload-progress update or a final report), no progress edit the
\* worker handed to the loop is still waiting to be applied after it; and the
\* last text of the status message of a finished job that fetched a batch is
\* its final report.
LaterStatus == {"downloaded", "uploading", "done_direct", "done_store"}
FinalReport == {"done_direct", "done_store"}

StatusTextsInOrder ==
    /\ (\E k \in 1..Len(outbox) : outbox[k].kind \in LaterStatus) => scheduled = <<>>
    /\ (RanToEnd /\ results # <<>>) =>
           /\ scheduled = <<>>
           /\ outbox # <<>>
           /\ outbox[Len(outbox)].kind \in FinalReport

=============================================================================
